---- MODULE Spec2Model ----
(***************************************************************************)
(* Model of rgs-core/app/main.py: the slot outcome engine, the wallet      *)
(* ledger transaction of POST /games/{game_id}/spin and POST               *)
(* /session/start, against a READ COMMITTED relational store with row      *)
(* locks (SELECT ... FOR UPDATE) and unique-key checks.                    *)
(*                                                                         *)
(* Amounts are fixed-point integers in units of 0.001 (the source uses     *)
(* IEEE doubles; every wager of the model is a whole number of cents, so   *)
(* wager / 5 and all products below are exact and no ".2f" tie occurs).    *)
(***************************************************************************)
EXTENDS Integers, Sequences, FiniteSets, TLC

\* ------------------------------------------------------------------
\* Bounds of the model
\* ------------------------------------------------------------------
MaxRounds == 2
MaxSessions == 2

\* ------------------------------------------------------------------
\* Paytable catalog
\* ------------------------------------------------------------------
Unit == 1000
Cent == 10

SLOT_ROWS == 3
SLOT_REELS == 5
SLOT_SYMBOLS == <<"10", "J", "Q", "K", "A", "W", "S">>
SCATTER_SYMBOL == "S"

PAYTABLE ==
  [s \in {"10", "J", "Q", "K", "A", "W"} |->
     CASE s = "10" -> (3 :> 1 @@ 4 :> 2 @@ 5 :> 4)
       [] s = "J"  -> (3 :> 2 @@ 4 :> 4 @@ 5 :> 8)
       [] s = "Q"  -> (3 :> 3 @@ 4 :> 6 @@ 5 :> 12)
       [] s = "K"  -> (3 :> 4 @@ 4 :> 8 @@ 5 :> 16)
       [] s = "A"  -> (3 :> 5 @@ 4 :> 10 @@ 5 :> 20)
       [] s = "W"  -> (3 :> 8 @@ 4 :> 16 @@ 5 :> 32)]

SCATTER_PAY == (3 :> 2 @@ 4 :> 5 @@ 5 :> 20)

\* (row, col) of the source, shifted to 1-based indices
PAYLINES ==
  << << <<1, 1>>, <<1, 2>>, <<1, 3>>, <<1, 4>>, <<1, 5>> >>,
     << <<2, 1>>, <<2, 2>>, <<2, 3>>, <<2, 4>>, <<2, 5>> >>,
     << <<3, 1>>, <<3, 2>>, <<3, 3>>, <<3, 4>>, <<3, 5>> >>,
     << <<1, 1>>, <<2, 2>>, <<3, 3>>, <<2, 4>>, <<1, 5>> >>,
     << <<3, 1>>, <<2, 2>>, <<1, 3>>, <<2, 4>>, <<3, 5>> >> >>

\* ------------------------------------------------------------------
\* Outcome engine (spin, lines 341-380)
\* ------------------------------------------------------------------
Max(S) == CHOOSE x \in S : \A y \in S : y <= x

\* f"{x:.2f}": the amount in whole cents, rounded to nearest
Fmt2(x) == (x + (Cent \div 2)) \div Cent

LineBet(bet) == bet \div Len(PAYLINES)

LineSymbols(grid, line) == [i \in 1..Len(line) |-> grid[line[i][1]][line[i][2]]]

\* count = 1; for symbol in line_symbols[1:]: count += 1 while equal, else break
RECURSIVE RunFrom(_, _, _)
RunFrom(syms, base, i) ==
  IF i > Len(syms) THEN 0
  ELSE IF syms[i] = base THEN 1 + RunFrom(syms, base, i + 1)
  ELSE 0

RunLength_CountAll(syms) ==
  Cardinality({i \in 1..Len(syms) : syms[i] = syms[1]})

RunLength(syms) == 1 + RunFrom(syms, syms[1], 2)

LinePays(syms) ==
  /\ syms[1] # SCATTER_SYMBOL
  /\ syms[1] \in DOMAIN PAYTABLE
  /\ RunLength(syms) >= 3
  /\ RunLength(syms) \in DOMAIN PAYTABLE[syms[1]]

LineWin_ScatterRun(grid, bet, idx) ==
  LET syms == LineSymbols(grid, PAYLINES[idx])
  IN IF LinePays(syms)
     THEN LineBet(bet) * PAYTABLE[syms[1]][RunLength(syms)]
     ELSE IF syms[1] = SCATTER_SYMBOL /\ RunLength(syms) >= 3
     THEN LineBet(bet) * SCATTER_PAY[RunLength(syms)]
     ELSE 0

LineWin(grid, bet, idx) ==
  LET syms == LineSymbols(grid, PAYLINES[idx])
  IN IF LinePays(syms)
     THEN LineBet(bet) * PAYTABLE[syms[1]][RunLength(syms)]
     ELSE 0

RECURSIVE TotalLineWinFrom(_, _, _)
TotalLineWinFrom(grid, bet, idx) ==
  IF idx > Len(PAYLINES) THEN 0
  ELSE LineWin(grid, bet, idx) + TotalLineWinFrom(grid, bet, idx + 1)

TotalLineWin(grid, bet) == TotalLineWinFrom(grid, bet, 1)

ScatterCount(grid) ==
  Cardinality({rc \in (1..SLOT_ROWS) \X (1..SLOT_REELS) :
                 grid[rc[1]][rc[2]] = SCATTER_SYMBOL})

ScatterWin_ExactKey(grid, bet) ==
  LET c == ScatterCount(grid)
  IN IF c >= 3 /\ c \in DOMAIN SCATTER_PAY
     THEN bet * SCATTER_PAY[c]
     ELSE 0

ScatterWin(grid, bet) ==
  LET c == ScatterCount(grid)
      applicable_keys == {k \in DOMAIN SCATTER_PAY : k <= c}
  IN IF c >= 3 /\ applicable_keys # {}
     THEN bet * SCATTER_PAY[Max(applicable_keys)]
     ELSE 0

WinAmount_NoScatter(grid, bet) == TotalLineWin(grid, bet)

WinAmount(grid, bet) == TotalLineWin(grid, bet) + ScatterWin(grid, bet)

\* line_win_messages: one entry per paying line, in payline order, then the
\* scatter entry; "pays" is the amount as printed with two decimals (cents)
RECURSIVE LineMessagesFrom(_, _, _)
LineMessagesFrom(grid, bet, idx) ==
  IF idx > Len(PAYLINES) THEN << >>
  ELSE LET syms == LineSymbols(grid, PAYLINES[idx])
       IN (IF LinePays(syms)
           THEN << [kind |-> "Line", line |-> idx, symbol |-> syms[1],
                    count |-> RunLength(syms),
                    pays |-> Fmt2(LineWin(grid, bet, idx))] >>
           ELSE << >>)
          \o LineMessagesFrom(grid, bet, idx + 1)

ScatterPays(grid) ==
  /\ ScatterCount(grid) >= 3
  /\ {k \in DOMAIN SCATTER_PAY : k <= ScatterCount(grid)} # {}

ScatterMessages(grid, bet) ==
  IF ScatterPays(grid)
  THEN << [kind |-> "Scatter", line |-> 0, symbol |-> SCATTER_SYMBOL,
           count |-> ScatterCount(grid),
           pays |-> Fmt2(ScatterWin(grid, bet))] >>
  ELSE << >>

LineWinMessages(grid, bet) ==
  LineMessagesFrom(grid, bet, 1) \o ScatterMessages(grid, bet)

\* ------------------------------------------------------------------
\* Inputs of the model
\* ------------------------------------------------------------------
Operators == {"op1", "op2"}
ExtPlayers == {"e1", "e2"}
Currencies == {"USD", "EUR"}
GameIds == {"slot"}
Spinners == {"t1", "t2"}
Starters == {"u1", "u2"}

\* 0, 10.00 and 995.00
Wagers == {0, 10 * Unit, 995 * Unit}

G_none ==
  << <<"10", "J", "Q", "K", "A">>,
     <<"J", "Q", "K", "A", "W">>,
     <<"K", "10", "A", "W", "10">> >>
G_A3 ==
  << <<"A", "A", "A", "K", "A">>,
     <<"J", "Q", "K", "10", "W">>,
     <<"Q", "K", "J", "W", "10">> >>
G_T3 ==
  << <<"10", "10", "10", "K", "A">>,
     <<"J", "Q", "K", "A", "W">>,
     <<"K", "10", "A", "W", "10">> >>
G_S3 ==
  << <<"S", "J", "Q", "K", "S">>,
     <<"J", "Q", "S", "A", "W">>,
     <<"K", "10", "A", "W", "10">> >>
G_W5S3 ==
  << <<"W", "W", "W", "W", "W">>,
     <<"S", "W", "S", "W", "S">>,
     <<"K", "K", "W", "K", "K">> >>
G_gap ==
  << <<"A", "K", "A", "A", "A">>,
     <<"Q", "Q", "K", "Q", "Q">>,
     <<"J", "10", "J", "J", "10">> >>
G_K4 ==
  << <<"K", "K", "K", "K", "A">>,
     <<"J", "Q", "10", "A", "W">>,
     <<"Q", "10", "J", "W", "10">> >>
G_S2 ==
  << <<"S", "J", "Q", "K", "S">>,
     <<"J", "Q", "K", "A", "W">>,
     <<"K", "10", "A", "W", "10">> >>
G_S4 ==
  << <<"S", "J", "Q", "K", "S">>,
     <<"J", "Q", "S", "A", "W">>,
     <<"K", "10", "A", "W", "S">> >>
G_S5row ==
  << <<"S", "S", "S", "S", "S">>,
     <<"J", "Q", "K", "A", "W">>,
     <<"K", "10", "A", "W", "10">> >>
G_S6 ==
  << <<"S", "S", "S", "S", "S">>,
     <<"J", "Q", "K", "A", "S">>,
     <<"K", "10", "A", "W", "10">> >>
G_S15 ==
  << <<"S", "S", "S", "S", "S">>,
     <<"S", "S", "S", "S", "S">>,
     <<"S", "S", "S", "S", "S">> >>
Grids == {G_none, G_T3}

\* 0.01 and 10.00
EngineWagers == {Cent, 10 * Unit}
EngineGrids ==
  {G_none, G_A3, G_T3, G_S3, G_W5S3, G_gap, G_K4, G_S2, G_S4, G_S5row, G_S6,
   G_S15}

None == [kind |-> "None"]
PlayerId(ext) == "player-" \o ext
PlayerIds == {PlayerId(e) : e \in ExtPlayers}
SessionIds == 1..MaxSessions
StartBalance == 1000 * Unit

\* ------------------------------------------------------------------
\* State
\* ------------------------------------------------------------------
VARIABLES
  players,    \* committed rows of table players
  wallets,    \* committed rows of table wallet_accounts
  sessions,   \* committed rows of table sessions
  rounds,     \* committed rows of table game_rounds
  spc,        \* start_session: position of each request handler
  sreq,       \* start_session: payload
  player,     \* start_session: the Player object fetched or created
  isNew,      \* start_session: the Player object is a pending INSERT
  swallet,    \* start_session: the WalletAccount fetched or created
  sresp,      \* start_session: the response sent by the last step, if any
  pc,         \* spin: position of each request handler
  req,        \* spin: game_id and payload
  dbsession,  \* spin: the Session row read
  wallet,     \* spin: the wallet row as loaded by SELECT ... FOR UPDATE
  balance,    \* spin: wallet.balance of the in-memory object
  outcome,    \* spin: grid, win_amount, line_win_messages, scatter_count
  resp        \* spin: the response sent by the last step, if any

dbvars == <<players, wallets, sessions, rounds>>
startvars == <<spc, sreq, player, isNew, swallet>>
spinvars == <<pc, req, dbsession, wallet, balance, outcome>>
vars == <<players, wallets, sessions, rounds, spc, sreq, player, isNew,
          swallet, sresp, pc, req, dbsession, wallet, balance, outcome, resp>>

Init ==
  /\ players = {}
  /\ wallets = {}
  /\ sessions = {}
  /\ rounds = {}
  /\ spc = [s \in Starters |-> "idle"]
  /\ sreq = [s \in Starters |-> None]
  /\ player = [s \in Starters |-> None]
  /\ isNew = [s \in Starters |-> FALSE]
  /\ swallet = [s \in Starters |-> None]
  /\ sresp = None
  /\ pc = [p \in Spinners |-> "idle"]
  /\ req = [p \in Spinners |-> None]
  /\ dbsession = [p \in Spinners |-> None]
  /\ wallet = [p \in Spinners |-> None]
  /\ balance = [p \in Spinners |-> 0]
  /\ outcome = [p \in Spinners |-> None]
  /\ resp = None

\* a step that sends no response
Quiet == resp' = None /\ sresp' = None

\* ------------------------------------------------------------------
\* POST /session/start (lines 240-299)
\* ------------------------------------------------------------------
StartInFlight == {s \in Starters : spc[s] # "idle"}

\* uq_player_operator_ext and the primary key of players
PlayerKeyClash(a, b) ==
  \/ a.id = b.id
  \/ (a.operator_id = b.operator_id /\ a.external_player_id = b.external_player_id)

\* Player rows inserted by a flush of another transaction, not yet committed
PendingPlayers(s) ==
  {player[t] : t \in {u \in Starters \ {s} : isNew[u] /\ spc[u] \in {"wallet", "commit"}}}

StartDone(s, r) ==
  /\ spc' = [spc EXCEPT ![s] = "idle"]
  /\ sresp' = r
  /\ resp' = None
  /\ sreq' = [sreq EXCEPT ![s] = None]
  /\ player' = [player EXCEPT ![s] = None]
  /\ isNew' = [isNew EXCEPT ![s] = FALSE]
  /\ swallet' = [swallet EXCEPT ![s] = None]

\* a request arrives: db.query(Player).filter(operator_id,
\* external_player_id).first(), then Player(...) when there is none
StartBegin(s, op, ext, cur) ==
  /\ spc[s] = "idle"
  /\ Cardinality(sessions) + Cardinality(StartInFlight) < MaxSessions
  /\ sreq' = [sreq EXCEPT ![s] =
       [operator_id |-> op, external_player_id |-> ext, currency |-> cur]]
  /\ Quiet
  /\ LET found == {pl \in players :
                     pl.operator_id = op /\ pl.external_player_id = ext}
     IN IF found # {}
        THEN /\ \E pl \in found : player' = [player EXCEPT ![s] = pl]
             /\ spc' = [spc EXCEPT ![s] = "wallet"]
             /\ UNCHANGED isNew
        ELSE /\ player' = [player EXCEPT ![s] =
                  [id |-> PlayerId(ext), operator_id |-> op,
                   external_player_id |-> ext, currency |-> cur]]
             /\ isNew' = [isNew EXCEPT ![s] = TRUE]
             /\ spc' = [spc EXCEPT ![s] = "flush"]
  /\ UNCHANGED swallet
  /\ UNCHANGED dbvars
  /\ UNCHANGED spinvars

\* db.add(player); db.flush(): the INSERT waits for a concurrent uncommitted
\* insert of the same key and fails on a committed one
StartFlush(s) ==
  /\ spc[s] = "flush"
  /\ \A pl \in PendingPlayers(s) : ~PlayerKeyClash(pl, player[s])
  /\ IF \E pl \in players : PlayerKeyClash(pl, player[s])
     THEN /\ StartDone(s, [status |-> 500, detail |-> "IntegrityError"])
     ELSE /\ spc' = [spc EXCEPT ![s] = "wallet"]
          /\ UNCHANGED <<sreq, player, isNew, swallet>>
          /\ Quiet
  /\ UNCHANGED dbvars
  /\ UNCHANGED spinvars

NewWallet(s) ==
  [id |-> Cardinality(wallets) + 1, player_id |-> player[s].id,
   balance |-> StartBalance, currency |-> sreq[s].currency]

StartWallet_NoLookup(s) ==
  /\ spc[s] = "wallet"
  /\ swallet' = [swallet EXCEPT ![s] = None]
  /\ spc' = [spc EXCEPT ![s] = "commit"]
  /\ UNCHANGED <<sreq, player, isNew>>
  /\ Quiet
  /\ UNCHANGED dbvars
  /\ UNCHANGED spinvars

\* db.query(WalletAccount).filter(player_id == player.id).first()
StartWallet(s) ==
  /\ spc[s] = "wallet"
  /\ LET found == {w \in wallets : w.player_id = player[s].id}
     IN IF found # {}
        THEN \E w \in found : swallet' = [swallet EXCEPT ![s] = w]
        ELSE swallet' = [swallet EXCEPT ![s] = None]
  /\ spc' = [spc EXCEPT ![s] = "commit"]
  /\ UNCHANGED <<sreq, player, isNew>>
  /\ Quiet
  /\ UNCHANGED dbvars
  /\ UNCHANGED spinvars

NewSession(s) ==
  [id |-> Cardinality(sessions) + 1, player_id |-> player[s].id,
   operator_id |-> sreq[s].operator_id, currency |-> sreq[s].currency,
   active |-> TRUE]

\* db.add(wallet); db.add(db_session); db.commit(); return SessionStartResponse
StartCommit(s) ==
  /\ spc[s] = "commit"
  /\ LET w == IF swallet[s] = None THEN NewWallet(s) ELSE swallet[s]
         ns == NewSession(s)
     IN /\ players' = IF isNew[s] THEN players \cup {player[s]} ELSE players
        /\ wallets' = IF swallet[s] = None THEN wallets \cup {w} ELSE wallets
        /\ sessions' = sessions \cup {ns}
        /\ StartDone(s, [status |-> 200, session_id |-> ns.id,
                         player_id |-> player[s].id,
                         currency |-> sreq[s].currency,
                         balance |-> w.balance])
  /\ UNCHANGED rounds
  /\ UNCHANGED spinvars

\* a store fault anywhere in the handler ("idle": in the first query of an
\* arriving request): get_db closes the session, which rolls the transaction
\* back; the framework answers 500
StartFault(s) ==
  /\ spc[s] \in {"idle", "flush", "wallet", "commit"}
  /\ StartDone(s, [status |-> 500, detail |-> "Internal Server Error"])
  /\ UNCHANGED dbvars
  /\ UNCHANGED spinvars

\* ------------------------------------------------------------------
\* POST /games/{game_id}/spin (lines 302-423)
\* ------------------------------------------------------------------
SpinInFlight == {p \in Spinners : pc[p] # "idle"}

\* the transactions that hold the row lock of wallet row wid
LockHolders(wid) ==
  {q \in Spinners : pc[q] \in {"check", "engine", "commit"}
                     /\ wallet[q] # None /\ wallet[q].id = wid}

LockFree_NoLock(wid) == TRUE

LockFree_TableLock(wid) ==
  {q \in Spinners : pc[q] \in {"check", "engine", "commit"}
                      /\ wallet[q] # None} = {}

\* .with_for_update(): the SELECT returns once no other transaction holds
\* the row lock
LockFree(wid) == LockHolders(wid) = {}

CheckDetail_NoSolvency(w, bet) ==
  IF w = None THEN "Wallet not found"
  ELSE IF bet <= 0 THEN "Bet amount must be > 0"
  ELSE ""

CheckDetail_NoBetCheck(w, bet) ==
  IF w = None THEN "Wallet not found"
  ELSE IF w.balance < bet THEN "Insufficient balance"
  ELSE ""

\* the raise HTTPException(400) of lines 320-327, "" when none is raised
CheckDetail(w, bet) ==
  IF w = None THEN "Wallet not found"
  ELSE IF bet <= 0 THEN "Bet amount must be > 0"
  ELSE IF w.balance < bet THEN "Insufficient balance"
  ELSE ""

SessionDetail_NoMismatch(ds, pid) ==
  IF ds = None \/ ~ds.active THEN "Invalid or inactive session"
  ELSE ""

\* the raise HTTPException(400) of lines 307-311, "" when none is raised
SessionDetail(ds, pid) ==
  IF ds = None \/ ~ds.active THEN "Invalid or inactive session"
  ELSE IF ds.player_id # pid THEN "Session / player mismatch"
  ELSE ""

CommitWallet_Lost(ws, wid, bal) == ws

\* UPDATE wallet_accounts SET balance = ... WHERE id = wid, at commit
CommitWallet(ws, wid, bal) ==
  {IF w.id = wid THEN [w EXCEPT !.balance = bal] ELSE w : w \in ws}

\* db.rollback(): the UPDATE of the wallet row and the INSERT of the round
\* are dropped, the committed rows stay as they are
RollbackWallets_Keep(ws, w, bal) ==
  IF w = None THEN ws ELSE CommitWallet(ws, w.id, bal)

RollbackWallets(ws, w, bal) == ws

RollbackRounds(rs, pending) == rs

GameRound_FixedId(p) ==
  [id |-> 1,
   player_id |-> req[p].player_id,
   session_id |-> req[p].session_id,
   game_id |-> req[p].game_id,
   bet_amount |-> req[p].bet_amount,
   win_amount |-> outcome[p].win_amount,
   new_balance |-> balance[p],
   currency |-> req[p].currency]

GameRound_StaleBalance(p) ==
  [id |-> Cardinality(rounds) + 1,
   player_id |-> req[p].player_id,
   session_id |-> req[p].session_id,
   game_id |-> req[p].game_id,
   bet_amount |-> req[p].bet_amount,
   win_amount |-> outcome[p].win_amount,
   new_balance |-> wallet[p].balance,
   currency |-> req[p].currency]

\* GameRound(...), lines 386-399; the table has no column for the grid or
\* the line wins
GameRound(p) ==
  [id |-> Cardinality(rounds) + 1,
   player_id |-> req[p].player_id,
   session_id |-> req[p].session_id,
   game_id |-> req[p].game_id,
   bet_amount |-> req[p].bet_amount,
   win_amount |-> outcome[p].win_amount,
   new_balance |-> balance[p],
   currency |-> req[p].currency]

SpinResponse(p, r) ==
  [status |-> 200, detail |-> "",
   round_id |-> r.id, player_id |-> req[p].player_id,
   game_id |-> req[p].game_id, bet_amount |-> req[p].bet_amount,
   win_amount |-> outcome[p].win_amount, new_balance |-> balance[p],
   currency |-> req[p].currency, grid |-> outcome[p].grid,
   line_wins |-> outcome[p].line_wins,
   scatter_count |-> outcome[p].scatter_count]

\* the handler returns or raises: position and response
SpinDone(p, r) ==
  /\ pc' = [pc EXCEPT ![p] = "idle"]
  /\ resp' = r
  /\ sresp' = None
  /\ req' = [req EXCEPT ![p] = None]
  /\ dbsession' = [dbsession EXCEPT ![p] = None]
  /\ wallet' = [wallet EXCEPT ![p] = None]
  /\ balance' = [balance EXCEPT ![p] = 0]
  /\ outcome' = [outcome EXCEPT ![p] = None]

SpinDecline_NoRelease(p, detail) ==
  /\ resp' = [status |-> 400, detail |-> detail]
  /\ sresp' = None
  /\ UNCHANGED spinvars
  /\ UNCHANGED dbvars

\* except HTTPException: db.rollback(); raise
SpinDecline(p, detail) ==
  /\ SpinDone(p, [status |-> 400, detail |-> detail])
  /\ wallets' = RollbackWallets(wallets, wallet[p], balance[p])
  /\ rounds' = RollbackRounds(rounds, outcome[p])
  /\ UNCHANGED <<players, sessions>>

\* a request arrives; lines 306-311: the session row is read and validated
SpinBegin(p, gid, sid, pid, bet, cur) ==
  /\ pc[p] = "idle"
  /\ Cardinality(rounds) + Cardinality(SpinInFlight) < MaxRounds
  /\ LET found == {ds \in sessions : ds.id = sid}
         ds == IF found = {} THEN None ELSE CHOOSE x \in found : TRUE
         detail == SessionDetail(ds, pid)
     IN IF detail # ""
        THEN SpinDecline(p, detail)
        ELSE /\ req' = [req EXCEPT ![p] =
                  [game_id |-> gid, session_id |-> sid, player_id |-> pid,
                   bet_amount |-> bet, currency |-> cur]]
             /\ dbsession' = [dbsession EXCEPT ![p] = ds]
             /\ pc' = [pc EXCEPT ![p] = "lock"]
             /\ UNCHANGED <<wallet, balance, outcome>>
             /\ Quiet
             /\ UNCHANGED dbvars
  /\ UNCHANGED startvars

\* lines 314-319: the SELECT ... FOR UPDATE returns the committed row, locked
SpinLockWallet(p) ==
  /\ pc[p] = "lock"
  /\ LET found == {w \in wallets : w.player_id = req[p].player_id}
     IN IF found = {}
        THEN /\ wallet' = [wallet EXCEPT ![p] = None]
             /\ UNCHANGED balance
        ELSE \E w \in found :
               /\ LockFree(w.id)
               /\ wallet' = [wallet EXCEPT ![p] = w]
               /\ balance' = [balance EXCEPT ![p] = w.balance]
  /\ pc' = [pc EXCEPT ![p] = "check"]
  /\ UNCHANGED <<req, dbsession, outcome>>
  /\ Quiet
  /\ UNCHANGED dbvars
  /\ UNCHANGED startvars

\* lines 320-330: the three checks, then wallet.balance -= bet_amount
SpinCheck(p) ==
  /\ pc[p] = "check"
  /\ LET detail == CheckDetail(wallet[p], req[p].bet_amount)
     IN IF detail # ""
        THEN SpinDecline(p, detail)
        ELSE /\ balance' = [balance EXCEPT ![p] = balance[p] - req[p].bet_amount]
             /\ pc' = [pc EXCEPT ![p] = "engine"]
             /\ UNCHANGED <<req, dbsession, wallet, outcome>>
             /\ Quiet
             /\ UNCHANGED dbvars
  /\ UNCHANGED startvars

SpinEngine_RepeatBonus(p, grid) ==
  /\ pc[p] = "engine"
  /\ LET full == WinAmount(grid, req[p].bet_amount)
         win == IF \E r \in rounds : r.player_id = req[p].player_id
                THEN 2 * full ELSE full
     IN /\ outcome' = [outcome EXCEPT ![p] =
             [grid |-> grid, win_amount |-> win,
              line_wins |-> LineWinMessages(grid, req[p].bet_amount),
              scatter_count |-> ScatterCount(grid)]]
        /\ balance' = [balance EXCEPT ![p] = balance[p] + win]
  /\ pc' = [pc EXCEPT ![p] = "commit"]
  /\ UNCHANGED <<req, dbsession, wallet>>
  /\ Quiet
  /\ UNCHANGED dbvars
  /\ UNCHANGED startvars

\* lines 336-384: draw the grid, evaluate it, wallet.balance += win_amount
SpinEngine(p, grid) ==
  /\ pc[p] = "engine"
  /\ LET win == WinAmount(grid, req[p].bet_amount)
     IN /\ outcome' = [outcome EXCEPT ![p] =
             [grid |-> grid, win_amount |-> win,
              line_wins |-> LineWinMessages(grid, req[p].bet_amount),
              scatter_count |-> ScatterCount(grid)]]
        /\ balance' = [balance EXCEPT ![p] = balance[p] + win]
  /\ pc' = [pc EXCEPT ![p] = "commit"]
  /\ UNCHANGED <<req, dbsession, wallet>>
  /\ Quiet
  /\ UNCHANGED dbvars
  /\ UNCHANGED startvars

\* lines 386-416: db.add(game_round); db.commit(); return SpinResponse
SpinCommit(p) ==
  /\ pc[p] = "commit"
  /\ LET r == GameRound(p)
     IN /\ wallets' = CommitWallet(wallets, wallet[p].id, balance[p])
        /\ rounds' = rounds \cup {r}
        /\ SpinDone(p, SpinResponse(p, r))
  /\ UNCHANGED <<players, sessions>>
  /\ UNCHANGED startvars

SpinFault_As400(p) ==
  /\ pc[p] \in {"idle", "lock", "check", "engine", "commit"}
  /\ SpinDone(p, [status |-> 400, detail |-> "Spin error", error |-> pc[p]])
  /\ wallets' = RollbackWallets(wallets, wallet[p], balance[p])
  /\ rounds' = RollbackRounds(rounds, outcome[p])
  /\ UNCHANGED <<players, sessions>>
  /\ UNCHANGED startvars

\* lines 421-423: any other exception (store fault, lock timeout, commit
\* failure): db.rollback(); raise HTTPException(500, f"Spin error: {e}");
\* e names the statement that failed ("idle": the session query of an
\* arriving request)
SpinFault(p) ==
  /\ pc[p] \in {"idle", "lock", "check", "engine", "commit"}
  /\ SpinDone(p, [status |-> 500, detail |-> "Spin error", error |-> pc[p]])
  /\ wallets' = RollbackWallets(wallets, wallet[p], balance[p])
  /\ rounds' = RollbackRounds(rounds, outcome[p])
  /\ UNCHANGED <<players, sessions>>
  /\ UNCHANGED startvars

\* ------------------------------------------------------------------
\* Specification
\* ------------------------------------------------------------------
StartNext(Sts, Ops, Exts, Curs) ==
  \/ \E s \in Sts, op \in Ops, ext \in Exts, cur \in Curs :
       StartBegin(s, op, ext, cur)
  \/ \E s \in Sts : StartFlush(s)
  \/ \E s \in Sts : StartWallet(s)
  \/ \E s \in Sts : StartCommit(s)
  \/ \E s \in Sts : StartFault(s)

SpinNext(Sps, Sids, Curs, Ws, Gs) ==
  \/ \E p \in Sps, gid \in GameIds, sid \in Sids, pid \in PlayerIds,
        bet \in Ws, cur \in Curs :
       SpinBegin(p, gid, sid, pid, bet, cur)
  \/ \E p \in Sps : SpinLockWallet(p)
  \/ \E p \in Sps : SpinCheck(p)
  \/ \E p \in Sps, grid \in Gs : SpinEngine(p, grid)
  \/ \E p \in Sps : SpinCommit(p)
  \/ \E p \in Sps : SpinFault(p)

\* the ledger under concurrent spins: one client starting sessions for two
\* players, two concurrent spin handlers
Next ==
  \/ StartNext({"u1"}, {"op1"}, ExtPlayers, {"USD"})
  \/ SpinNext(Spinners, SessionIds, {"USD"}, Wagers, Grids)

Spec == Init /\ [][Next]_vars

\* session starts of two operators arriving concurrently, one spin handler
NextStart ==
  \/ StartNext(Starters, Operators, ExtPlayers, Currencies)
  \/ SpinNext({"t1"}, {1}, {"USD"}, {10 * Unit}, {G_T3})

SpecStart == Init /\ [][NextStart]_vars

\* one player, one spin handler, the outcome engine on more wagers and grids
NextEngine ==
  \/ StartNext({"u1"}, {"op1"}, {"e1"}, {"USD"})
  \/ SpinNext({"t1"}, {1}, {"USD"}, EngineWagers, EngineGrids)

SpecEngine == Init /\ [][NextEngine]_vars

\* one player, two spin handlers contending for its wallet; a running
\* handler takes its next step, and a handler waiting for the row lock gets
\* it when it is free again and again (the store queues the waiters)
NextLive ==
  \/ StartNext({"u1"}, {"op1"}, {"e1"}, {"USD"})
  \/ SpinNext(Spinners, {1}, {"USD"}, {0, 10 * Unit}, {G_T3})

Fairness ==
  \A p \in Spinners :
    /\ SF_vars(SpinLockWallet(p))
    /\ WF_vars(SpinCheck(p))
    /\ WF_vars(SpinEngine(p, G_T3))
    /\ WF_vars(SpinCommit(p))

SpecLive == Init /\ [][NextLive]_vars /\ Fairness

\* two players, two concurrent spin handlers, every wager 10.00
PairWagers == {10 * Unit}

NextPair ==
  \/ StartNext({"u1"}, {"op1"}, ExtPlayers, {"USD"})
  \/ SpinNext(Spinners, SessionIds, {"USD"}, PairWagers, Grids)

SpecPair == Init /\ [][NextPair]_vars

\* one player, one spin handler, requests in either currency
NextCurrency ==
  \/ StartNext({"u1"}, {"op1"}, {"e1"}, Currencies)
  \/ SpinNext({"t1"}, SessionIds, Currencies, {10 * Unit}, {G_T3})

SpecCurrency == Init /\ [][NextCurrency]_vars

\* ------------------------------------------------------------------
\* Properties
\* ------------------------------------------------------------------
SessionDetails == {"Invalid or inactive session", "Session / player mismatch"}
DeclineDetails ==
  SessionDetails \cup
    {"Wallet not found", "Bet amount must be > 0", "Insufficient balance"}

\* the handler p returns or raises in this step, after it had passed the
\* session validation
SpinEnds(p) == pc[p] # "idle" /\ pc'[p] = "idle"

\* the handler p commits in this step
SpinCommits(p) ==
  pc[p] = "commit" /\ pc'[p] = "idle" /\ resp' # None /\ resp'.status = 200

\* a request that is declined at arrival or faults in its first query ends
\* in the step it arrives in
ArrivalEnds == pc' = pc /\ resp' # None /\ resp' # resp

RECURSIVE SumBets(_)
SumBets(rs) ==
  IF rs = {} THEN 0
  ELSE LET r == CHOOSE x \in rs : TRUE IN r.bet_amount + SumBets(rs \ {r})

RECURSIVE SumWins(_)
SumWins(rs) ==
  IF rs = {} THEN 0
  ELSE LET r == CHOOSE x \in rs : TRUE IN r.win_amount + SumWins(rs \ {r})

PlayerRounds(pid) == {r \in rounds : r.player_id = pid}

\* the win a recorded contribution stands for
ContributionWin(m, grid, bet) ==
  IF m.kind = "Line" THEN LineWin(grid, bet, m.line) ELSE ScatterWin(grid, bet)

RECURSIVE SumContributions(_, _, _)
SumContributions(msgs, grid, bet) ==
  IF msgs = << >> THEN 0
  ELSE ContributionWin(Head(msgs), grid, bet)
         + SumContributions(Tail(msgs), grid, bet)

\* C1: a settlement that commits with wager w on a wallet read under the lock
\* with balance b has w > 0 and b >= w, leaves the wallet at b - w + payout,
\* returns that value as new balance and stores it in the round, and payout
\* is the sum of the line wins and the scatter win that have a contribution
\* entry.
C1_Settlement ==
  [][\A p \in Spinners : SpinCommits(p) =>
       LET b == wallet[p].balance
           w == req[p].bet_amount
           payout == resp'.win_amount
       IN /\ w > 0
          /\ b >= w
          /\ payout = SumContributions(resp'.line_wins, resp'.grid, w)
          /\ \E x \in wallets' :
               x.id = wallet[p].id /\ x.balance = b - w + payout
          /\ resp'.new_balance = b - w + payout
          /\ \E r \in rounds' \ rounds :
               /\ r.id = resp'.round_id
               /\ r.win_amount = payout
               /\ r.new_balance = b - w + payout]_vars

C1_Witness ==
  /\ resp # None
  /\ resp.status = 200
  /\ Len(resp.line_wins) >= 2
  /\ resp.win_amount > 0
  /\ \E w \in wallets : w.balance = resp.new_balance
  /\ \E r \in rounds : r.id = resp.round_id /\ r.new_balance = resp.new_balance

\* C2: the committed balance of every wallet is non-negative in every
\* reachable state.
C2_NonNegative == \A w \in wallets : w.balance >= 0

C2_Witness ==
  /\ rounds # {}
  /\ \E w \in wallets : w.balance < 10 * Unit

\* C3: at most one handler holds the lock of a wallet row, the row a handler
\* read under the lock is still the committed row while it holds the lock,
\* and every balance is the starting balance minus the committed wagers plus
\* the committed payouts of its player, never below starting balance minus
\* wagers.
C3_NoLostUpdate ==
  /\ \A w \in wallets : Cardinality(LockHolders(w.id)) <= 1
  /\ \A p \in Spinners :
       (pc[p] \in {"check", "engine", "commit"} /\ wallet[p] # None)
         => wallet[p] \in wallets
  /\ \A w \in wallets :
       LET rs == PlayerRounds(w.player_id)
       IN /\ w.balance = StartBalance - SumBets(rs) + SumWins(rs)
          /\ w.balance >= StartBalance - SumBets(rs)

C3_Witness ==
  \E p \in Spinners, q \in Spinners :
    /\ p # q
    /\ pc[p] = "lock"
    /\ pc[q] \in {"engine", "commit"}
    /\ wallet[q].player_id = req[p].player_id
    /\ balance[q] # wallet[q].balance

\* C4: a spin that fails after the debit and before the commit completes
\* leaves the committed wallet rows and the round records as they were.
C4_RollbackRestores ==
  [][\A p \in Spinners :
       (pc[p] \in {"engine", "commit"} /\ pc'[p] = "idle"
          /\ resp' # None /\ resp'.status # 200)
         => (wallets' = wallets /\ rounds' = rounds)]_vars

C4_Witness ==
  /\ resp # None
  /\ resp.status = 500
  /\ resp.error = "commit"
  /\ rounds = {}
  /\ wallets # {}
  /\ \A w \in wallets : w.balance = StartBalance

\* C5: a step that answers a declined request changes no wallet, round,
\* session or player, and a request that meets a declined-request condition
\* never gets past the checks.
C5_DeclineNoMutation ==
  /\ [](\A p \in Spinners :
          pc[p] \in {"engine", "commit"} =>
            /\ dbsession[p] # None
            /\ dbsession[p].active
            /\ dbsession[p].player_id = req[p].player_id
            /\ wallet[p] # None
            /\ req[p].bet_amount > 0
            /\ wallet[p].balance >= req[p].bet_amount)
  /\ [][(resp' # None /\ resp'.status = 400 /\ (resp' # resp \/ pc' # pc))
          => /\ UNCHANGED dbvars
             /\ resp'.detail \in DeclineDetails]_vars

C5_Witness ==
  /\ resp # None
  /\ resp.status = 400
  /\ resp.detail = "Insufficient balance"
  /\ Cardinality(wallets) = 1
  /\ \E w \in wallets : w.balance = 5 * Unit

\* C6: a handler requests the wallet lock or draws a grid only for a session
\* that is active and bound to the player of the request; a decline for an
\* unknown or inactive session or for a session/player mismatch is answered
\* in the step the request arrives in, with no wallet read and no grid drawn.
C6_ValidatedFirst ==
  /\ [](\A p \in Spinners :
          pc[p] # "idle" =>
            /\ dbsession[p] # None
            /\ dbsession[p].active
            /\ dbsession[p].player_id = req[p].player_id)
  /\ [][(resp' # None /\ resp' # resp /\ resp'.status = 400
            /\ resp'.detail \in SessionDetails)
          => /\ pc' = pc
             /\ wallet' = wallet
             /\ outcome' = outcome]_vars

C6_Witness ==
  /\ resp # None
  /\ resp.status = 400
  /\ resp.detail = "Session / player mismatch"
  /\ \E p \in Spinners : pc[p] \in {"engine", "commit"}

\* C7: round records are never modified or removed; the set of rounds
\* changes only in a step in which a spin commits, and that step adds
\* exactly one record, with an identifier no earlier round has.
C7_OneRoundPerCommit ==
  [][/\ rounds \subseteq rounds'
     /\ rounds' # rounds =>
          \E p \in Spinners :
            /\ SpinCommits(p)
            /\ \E r \in rounds' \ rounds :
                 /\ rounds' = rounds \cup {r}
                 /\ r.id = resp'.round_id
                 /\ r.id \notin {x.id : x \in rounds}
     /\ \A p \in Spinners :
          SpinCommits(p) => Cardinality(rounds') = Cardinality(rounds) + 1
     /\ \A p \in Spinners :
          (SpinEnds(p) /\ resp' # None /\ resp'.status # 200)
            => rounds' = rounds]_vars

C7_Witness ==
  /\ Cardinality(rounds) >= 2
  /\ resp # None
  /\ resp.status = 500

RoundColumns ==
  {"id", "player_id", "session_id", "game_id", "bet_amount", "win_amount",
   "new_balance", "currency"}

ClientFault(p) ==
  \/ wallet[p] = None
  \/ req[p].bet_amount <= 0
  \/ wallet[p].balance < req[p].bet_amount

\* C9: every spin ends with status 200, 400 or 500; 200 only for a commit,
\* 400 only for a client-fault condition, 500 for every other failure, which
\* leaves the store unchanged.
C9_ThreeOutcomes ==
  [][((\E p \in Spinners : SpinEnds(p)) \/ ArrivalEnds) =>
       /\ resp' # None
       /\ resp'.status \in {200, 400, 500}
       /\ resp'.status = 200 =>
            \E p \in Spinners :
              pc[p] = "commit" /\ SpinEnds(p) /\ rounds' # rounds
       /\ resp'.status = 400 =>
            /\ resp'.detail \in DeclineDetails
            /\ \/ ArrivalEnds /\ resp'.detail \in SessionDetails
               \/ \E p \in Spinners :
                    pc[p] = "check" /\ SpinEnds(p) /\ ClientFault(p)
            /\ UNCHANGED dbvars
       /\ resp'.status = 500 =>
            /\ resp'.detail = "Spin error"
            /\ UNCHANGED dbvars
       /\ \A p \in Spinners :
            (SpinEnds(p) /\ pc[p] \in {"lock", "engine"}) => resp'.status = 500
       /\ \A p \in Spinners :
            (SpinEnds(p) /\ pc[p] = "check" /\ ~ClientFault(p))
              => resp'.status = 500
       /\ \A p \in Spinners :
            (SpinEnds(p) /\ pc[p] = "commit" /\ rounds' = rounds)
              => resp'.status = 500]_vars

C9_Witness ==
  /\ resp # None
  /\ resp.status = 500
  /\ resp.error = "lock"
  /\ rounds # {}

\* C10: a session start is rejected by the key check of the players table
\* only when its (operator, external player) pair is already registered, so
\* the first request of every pair succeeds.
C10_FirstStartSucceeds ==
  [][\A s \in Starters :
       (spc[s] = "flush" /\ spc'[s] = "idle" /\ sresp' # None
          /\ sresp'.detail = "IntegrityError")
         => \E pl \in players :
              /\ pl.operator_id = sreq[s].operator_id
              /\ pl.external_player_id = sreq[s].external_player_id]_vars

RECURSIVE SumNet(_)
SumNet(rs) ==
  IF rs = {} THEN 0
  ELSE LET r == CHOOSE x \in rs : TRUE
       IN (r.win_amount - r.bet_amount) + SumNet(rs \ {r})

\* C11: the committed balance of every wallet is the starting balance plus
\* the sum of (payout - wager) over the committed rounds of its player; a
\* committed balance changes only in a step that also adds the round of that
\* settlement, to the balance that round records, and a round is added only
\* in a step that moves the wallet of its player by payout - wager.
C11_LedgerConsistent ==
  /\ [](\A w \in wallets :
          w.balance = StartBalance + SumNet(PlayerRounds(w.player_id)))
  /\ [][/\ \A w \in wallets, x \in wallets' :
            (x.id = w.id /\ x.balance # w.balance) =>
              \E r \in rounds' \ rounds :
                /\ r.player_id = w.player_id
                /\ r.new_balance = x.balance
                /\ x.balance = w.balance - r.bet_amount + r.win_amount
        /\ \A r \in rounds' \ rounds :
            \E w \in wallets, x \in wallets' :
              /\ x.id = w.id
              /\ w.player_id = r.player_id
              /\ x.balance = w.balance - r.bet_amount + r.win_amount
              /\ x.balance = r.new_balance]_vars

C11_Witness ==
  \E q \in Spinners :
    /\ pc[q] = "engine"
    /\ wallet[q] \in wallets
    /\ wallet[q].balance = 992 * Unit
    /\ balance[q] = 982 * Unit
    /\ PlayerRounds(wallet[q].player_id) # {}

\* the handlers other than p that hold the row lock of a wallet of player pid
OwnWalletHeld(p, pid) ==
  {q \in Spinners \ {p} :
     /\ pc[q] \in {"check", "engine", "commit"}
     /\ wallet[q] # None
     /\ wallet[q].player_id = pid}

\* C12: a handler waiting for the wallet lock can take it exactly when no
\* other handler holds the lock of a wallet of its own player, whatever
\* locks are held on the wallets of other players.
C12_OwnWalletOnly ==
  \A p \in Spinners :
    pc[p] = "lock" =>
      (ENABLED SpinLockWallet(p) <=> OwnWalletHeld(p, req[p].player_id) = {})

C12_Witness ==
  \E p \in Spinners, q \in Spinners :
    /\ pc[p] \in {"engine", "commit"}
    /\ pc[q] \in {"engine", "commit"}
    /\ wallet[p].id # wallet[q].id
    /\ balance[p] # wallet[p].balance
    /\ balance[q] # wallet[q].balance

\* the evaluation rules as the design states them
LineSymbolSet == {"10", "J", "Q", "K", "A", "W"}

\* the symbols identical to the leftmost one, from reel 1 up to the first
\* differing symbol
StatedRun(syms) ==
  Max({n \in 1..Len(syms) : \A i \in 1..n : syms[i] = syms[1]})

StatedLineWin(grid, bet, idx) ==
  LET syms == [i \in 1..SLOT_REELS |->
                 grid[PAYLINES[idx][i][1]][PAYLINES[idx][i][2]]]
      n == StatedRun(syms)
  IN IF syms[1] \in LineSymbolSet /\ n \in {3, 4, 5}
     THEN (bet \div 5) * PAYTABLE[syms[1]][n]
     ELSE 0

StatedLineTotal(grid, bet) ==
  StatedLineWin(grid, bet, 1) + StatedLineWin(grid, bet, 2)
    + StatedLineWin(grid, bet, 3) + StatedLineWin(grid, bet, 4)
    + StatedLineWin(grid, bet, 5)

LineEntries(msgs, idx) ==
  {i \in 1..Len(msgs) : msgs[i].kind = "Line" /\ msgs[i].line = idx}

\* C13: in every committed spin each payline pays 0 unless the run of the
\* leftmost symbol from reel 1 has length 3, 4 or 5, and then pays
\* (wager / 5) x multiplier(symbol, run length); the contributions name
\* exactly the paying lines, and the payout less the scatter win is the sum
\* of the line wins. Wager 10.00 on a grid whose only win is A x3 on one
\* line pays 10.00 and leaves the balance as it was.
C13_LeftRunPays ==
  [][\A p \in Spinners : SpinCommits(p) =>
       LET g == resp'.grid
           bet == resp'.bet_amount
       IN /\ \A idx \in 1..5 :
               LET sw == StatedLineWin(g, bet, idx)
                   es == LineEntries(resp'.line_wins, idx)
                   syms == LineSymbols(g, PAYLINES[idx])
               IN /\ Cardinality(es) = (IF sw > 0 THEN 1 ELSE 0)
                  /\ \A i \in es :
                       /\ resp'.line_wins[i].symbol = syms[1]
                       /\ resp'.line_wins[i].count = StatedRun(syms)
                       /\ resp'.line_wins[i].pays = Fmt2(sw)
          /\ resp'.win_amount - ScatterWin(g, bet) = StatedLineTotal(g, bet)
          /\ (g = G_A3 /\ bet = 10 * Unit) =>
               /\ resp'.win_amount = 10 * Unit
               /\ resp'.new_balance = wallet[p].balance
               /\ \E w \in wallets' : w.balance = wallet[p].balance]_vars

C13_Witness ==
  /\ resp # None
  /\ resp.status = 200
  /\ resp.grid = G_gap
  /\ resp.win_amount = 0
  /\ resp.new_balance = StartBalance - resp.bet_amount
  /\ \E r \in rounds :
       /\ r.bet_amount = 10 * Unit
       /\ r.win_amount = 10 * Unit
       /\ r.new_balance = StartBalance

\* the number of scatter cells, row by row
StatedScatterCells(grid) ==
  LET InRow(r) == Cardinality({c \in 1..5 : grid[r][c] = "S"})
  IN InRow(1) + InRow(2) + InRow(3)

StatedScatterWin(c, bet) ==
  IF c < 3 THEN 0
  ELSE bet * SCATTER_PAY[Max({t \in {3, 4, 5} : t <= c})]

ScatterEntries(msgs) == {i \in 1..Len(msgs) : msgs[i].kind = "Scatter"}

\* C14: the response of every committed spin reports the number c of scatter
\* cells of its grid, and the payout less the line wins is 0 when c < 3 and
\* otherwise wager x multiplier(highest threshold of 3, 4, 5 not above c),
\* which is the 5-threshold multiplier for every c >= 5; the scatter
\* contribution is recorded, last, exactly when c >= 3.
C14_ScatterByCount ==
  (resp # None /\ resp.status = 200) =>
    LET c == StatedScatterCells(resp.grid)
        bet == resp.bet_amount
        sw == StatedScatterWin(c, bet)
        es == ScatterEntries(resp.line_wins)
    IN /\ resp.scatter_count = c
       /\ resp.win_amount - StatedLineTotal(resp.grid, bet) = sw
       /\ c >= 5 => sw = bet * SCATTER_PAY[5]
       /\ c < 3 => sw = 0
       /\ es = (IF c >= 3 THEN {Len(resp.line_wins)} ELSE {})
       /\ \A i \in es :
            /\ resp.line_wins[i].count = c
            /\ resp.line_wins[i].pays = Fmt2(sw)

C14_Witness ==
  /\ resp # None
  /\ resp.status = 200
  /\ resp.scatter_count > 5
  /\ resp.scatter_count < 15
  /\ resp.win_amount = 20 * resp.bet_amount
  /\ \E r \in rounds : r.win_amount = 5 * r.bet_amount

\* the paylines of a grid whose leftmost cell holds the scatter symbol
ScatterLed(grid) ==
  {idx \in 1..5 : grid[PAYLINES[idx][1][1]][PAYLINES[idx][1][2]] = "S"}

NonScatterLineWin(grid, bet, idx) ==
  IF idx \in ScatterLed(grid) THEN 0 ELSE LineWin(grid, bet, idx)

\* C15: in every committed spin a payline whose leftmost symbol is the
\* scatter has no contribution entry and adds nothing to the payout, which
\* is the scatter win plus the wins of the other paylines; when every
\* payline starts on a scatter the payout is the scatter win alone.
C15_ScatterLedLinePaysNothing ==
  (resp # None /\ resp.status = 200) =>
    LET g == resp.grid
        bet == resp.bet_amount
        sw == StatedScatterWin(StatedScatterCells(g), bet)
    IN /\ \A idx \in ScatterLed(g) : LineEntries(resp.line_wins, idx) = {}
       /\ resp.win_amount =
            sw + NonScatterLineWin(g, bet, 1) + NonScatterLineWin(g, bet, 2)
               + NonScatterLineWin(g, bet, 3) + NonScatterLineWin(g, bet, 4)
               + NonScatterLineWin(g, bet, 5)
       /\ ScatterLed(g) = 1..5 =>
            /\ resp.win_amount = sw
            /\ \A i \in 1..Len(resp.line_wins) :
                 resp.line_wins[i].kind = "Scatter"

C15_Witness ==
  /\ resp # None
  /\ resp.status = 200
  /\ resp.grid[1] = <<"S", "S", "S", "S", "S">>
  /\ resp.scatter_count = 5
  /\ Len(resp.line_wins) = 1
  /\ resp.line_wins[1].kind = "Scatter"
  /\ resp.win_amount = 20 * resp.bet_amount

\* the evaluations a state shows: the outcome held by each handler that has
\* evaluated its grid, and the outcome of the response just sent
Evaluations ==
  {[bet |-> req[p].bet_amount, grid |-> outcome[p].grid,
    win |-> outcome[p].win_amount, scatter_count |-> outcome[p].scatter_count,
    line_wins |-> outcome[p].line_wins] :
     p \in {q \in Spinners : pc[q] = "commit"}}
  \cup
  (IF resp # None /\ resp.status = 200
   THEN {[bet |-> resp.bet_amount, grid |-> resp.grid,
          win |-> resp.win_amount, scatter_count |-> resp.scatter_count,
          line_wins |-> resp.line_wins]}
   ELSE {})

\* C16: two evaluations with the same wager and the same grid have the same
\* payout, scatter count and ordered contribution list, whichever players,
\* sessions and wallets they belong to; and every payout and scatter count
\* is the value the paytable rules give for the grid and the wager alone,
\* whatever the balance and the earlier rounds.
C16_PureEvaluation ==
  /\ \A a \in Evaluations, b \in Evaluations :
       (a.bet = b.bet /\ a.grid = b.grid) => a = b
  /\ \A a \in Evaluations :
       /\ a.win = StatedLineTotal(a.grid, a.bet)
                    + StatedScatterWin(StatedScatterCells(a.grid), a.bet)
       /\ a.scatter_count = StatedScatterCells(a.grid)

C16_Witness ==
  \E p \in Spinners, q \in Spinners :
    /\ p # q
    /\ pc[p] = "commit"
    /\ pc[q] = "commit"
    /\ req[p].player_id # req[q].player_id
    /\ req[p].session_id # req[q].session_id
    /\ req[p].bet_amount = req[q].bet_amount
    /\ outcome[p].grid = outcome[q].grid
    /\ outcome[p].win_amount > 0

C16_WitnessLater ==
  \E p \in Spinners, r \in rounds :
    /\ pc[p] = "commit"
    /\ r.player_id = req[p].player_id
    /\ r.bet_amount = req[p].bet_amount
    /\ r.win_amount = outcome[p].win_amount
    /\ r.win_amount > 0
    /\ wallet[p].balance # StartBalance

\* C17: a handler that holds a wallet row lock eventually returns, by commit
\* or rollback, and is then no lock holder; a handler waiting for the lock
\* eventually holds it or has returned.
C17_LockReleased ==
  \A p \in Spinners :
    /\ (pc[p] \in {"check", "engine", "commit"}) ~> (pc[p] = "idle")
    /\ (pc[p] = "lock") ~> (pc[p] \in {"check", "idle"})

C17_Witness ==
  \E p \in Spinners, q \in Spinners :
    /\ pc[p] = "lock"
    /\ pc[q] = "check"
    /\ wallet[q] # None
    /\ wallet[q].player_id = req[p].player_id
    /\ req[q].bet_amount = 0

\* the (operator, external player) pair of the request of s is registered
Registered(s) ==
  \E pl \in players :
    /\ pl.operator_id = sreq[s].operator_id
    /\ pl.external_player_id = sreq[s].external_player_id

\* C18: every player has exactly one wallet and every wallet has a player;
\* the wallet query of a session start returns the committed row; a session
\* start that commits for a registered pair adds one session and nothing
\* else, and returns the balance of the wallet row it read, which is the
\* committed balance unless a spin on that wallet has committed since the
\* read.
C18_OneWalletPerPlayer ==
  /\ [](/\ \A pl \in players :
             Cardinality({w \in wallets : w.player_id = pl.id}) = 1
        /\ \A w \in wallets : \E pl \in players : pl.id = w.player_id)
  /\ [][\A s \in Starters :
         /\ (spc[s] = "wallet" /\ spc'[s] = "commit" /\ Registered(s))
              => swallet'[s] \in wallets
         /\ (spc[s] = "commit" /\ spc'[s] = "idle" /\ Registered(s)
                /\ sresp' # None /\ sresp'.status = 200)
              => /\ players' = players
                 /\ wallets' = wallets
                 /\ sessions \subseteq sessions'
                 /\ Cardinality(sessions') = Cardinality(sessions) + 1
                 /\ sresp'.balance = swallet[s].balance
                 /\ swallet[s] \in wallets =>
                      \E w \in wallets' :
                        /\ w.player_id = sresp'.player_id
                        /\ w.balance = sresp'.balance]_vars

C18_Witness ==
  /\ sresp # None
  /\ sresp.status = 200
  /\ sresp.balance # StartBalance
  /\ Cardinality(sessions) = 2
  /\ Cardinality(wallets) = 1
  /\ \E w \in wallets : w.balance = sresp.balance

\* C19: every round record carries the currency of the wallet of its
\* player, and every spin result the currency of the wallet it settled
\* against.
C19_RoundInWalletCurrency ==
  /\ \A r \in rounds :
       \A w \in wallets : w.player_id = r.player_id => w.currency = r.currency
  /\ (resp # None /\ resp.status = 200) =>
       \A w \in wallets :
         w.player_id = resp.player_id => w.currency = resp.currency

====
